---------------------------- MODULE Spec2Model ----------------------------
(***************************************************************************)
(* The /identify endpoint of main.py: identify_audio downloads an audio    *)
(* file, transcodes it, signs and uploads the sample to the fingerprint    *)
(* service, and normalises the service's answer.  Requests are handled by  *)
(* worker threads that share the wall clock and the working directory.     *)
(***************************************************************************)
EXTENDS Integers, Sequences, FiniteSets, TLC

\* worker threads handling requests
NumReqs == 2

\* the wall clock runs from 0 to MaxClock ticks, TicksPerSec ticks to a second
MaxClock == 3

TicksPerSec == 2

Reqs == 1..NumReqs

\* int(t) of a wall-clock reading t: whole seconds, truncated
IntTrunc(t) == t \div TicksPerSec

(***************************************************************************)
(* Python values: a dict is a function on its keys, [] and {} are <<>>.    *)
(***************************************************************************)
Get(d, k, default) == IF k \in DOMAIN d THEN d[k] ELSE default

\* the dicts with key k absent, or present with a value of vals
Opt(k, vals) == {<<>>} \cup {k :> v : v \in vals}

(***************************************************************************)
(* IEEE-754 binary64 arithmetic, as used by line 93 of main.py:            *)
(*     math.ceil((match_duration / total_duration_ms) * 100)               *)
(* A positive double is [man, exp] with value man * 2^exp, where man is a  *)
(* 53-bit integer held as six little-endian limbs of LimbBits bits (TLC's  *)
(* integers are 32 bits wide).  Zero is the empty mantissa.                *)
(***************************************************************************)
LimbBits == 9

Limb == 2 ^ LimbBits

MantBits == 53

FloatZero == [man |-> <<>>, exp |-> 0]

\* floor(log2(a / b)) for a >= b > 0
Log2Quot(a, b) == CHOOSE k \in 0..30 : b <= a \div (2 ^ k) /\ a \div (2 ^ (k + 1)) < b

\* the least j with a * 2^j >= b, for 0 < a < b
Log2Scale(a, b) ==
    CHOOSE j \in 1..30 : a >= (b + 2 ^ j - 1) \div (2 ^ j)
                         /\ a < (b + 2 ^ (j - 1) - 1) \div (2 ^ (j - 1))

\* a / b = (num / den) * 2^exp with den <= num < 2 * den
Normalise(a, b) ==
    IF a >= b THEN [num |-> a, den |-> b * (2 ^ Log2Quot(a, b)), exp |-> Log2Quot(a, b)]
    ELSE [num |-> a * (2 ^ Log2Scale(a, b)), den |-> b, exp |-> -Log2Scale(a, b)]

\* long division: the next n limbs of the quotient r / den (most significant
\* limb last in the result), then the remainder left over
RECURSIVE DivLimbs(_, _, _)
DivLimbs(r, den, n) ==
    IF n = 0 THEN [limbs |-> <<>>, rem |-> r]
    ELSE [limbs |-> DivLimbs((r * Limb) % den, den, n - 1).limbs \o <<(r * Limb) \div den>>,
          rem |-> DivLimbs((r * Limb) % den, den, n - 1).rem]

\* limbs + 1
RECURSIVE IncLimbs(_)
IncLimbs(m) ==
    IF m = <<>> THEN <<1>>
    ELSE IF Head(m) + 1 < Limb THEN <<Head(m) + 1>> \o Tail(m)
    ELSE <<0>> \o IncLimbs(Tail(m))

\* limbs * f + carry
RECURSIVE MulLimbs(_, _, _)
MulLimbs(m, f, carry) ==
    IF m = <<>> THEN (IF carry = 0 THEN <<>> ELSE <<carry % Limb>> \o MulLimbs(m, f, carry \div Limb))
    ELSE <<(Head(m) * f + carry) % Limb>> \o MulLimbs(Tail(m), f, (Head(m) * f + carry) \div Limb)

BitLen(n) == CHOOSE k \in 0..31 : n < 2 ^ k /\ (k = 0 \/ n >= 2 ^ (k - 1))

LimbsBitLen(m) == LimbBits * (Len(m) - 1) + BitLen(m[Len(m)])

TopBits == MantBits - LimbBits * 5

\* the mantissa after a round-up: 2^53 renormalises to 2^52 with the exponent raised
Carry(m, e) ==
    IF IncLimbs(m)[Len(m)] = 2 ^ TopBits
    THEN [man |-> [i \in 1..Len(m) |-> IF i = Len(m) THEN 2 ^ (TopBits - 1) ELSE 0], exp |-> e + 1]
    ELSE [man |-> IncLimbs(m), exp |-> e]

\* round-half-to-even of the integer p * 2^e, where p has d bits too many (0 < d < LimbBits)
RoundShift(p, e, d) ==
    LET q == [i \in 1..(MantBits + LimbBits - 1) \div LimbBits |->
                 p[i] \div (2 ^ d)
                 + (IF i < Len(p) THEN (p[i + 1] % (2 ^ d)) * (2 ^ (LimbBits - d)) ELSE 0)]
        low == p[1] % (2 ^ d)
        half == 2 ^ (d - 1)
    IN IF low > half \/ (low = half /\ q[1] % 2 = 1) THEN Carry(q, e + d)
       ELSE [man |-> q, exp |-> e + d]

\* a / b for integers a >= 0, b > 0 (Python's int / int is correctly rounded)
TrueDiv(a, b) ==
    IF a = 0 THEN FloatZero
    ELSE LET s == Normalise(a, b)
             top == ((s.num - s.den) * (2 ^ (TopBits - 1))) \div s.den
             r1 == ((s.num - s.den) * (2 ^ (TopBits - 1))) % s.den
             low == DivLimbs(r1, s.den, 5)
             m == low.limbs \o <<2 ^ (TopBits - 1) + top>>
             up == 2 * low.rem > s.den \/ (2 * low.rem = s.den /\ m[1] % 2 = 1)
         IN IF up THEN Carry(m, s.exp - (MantBits - 1))
            ELSE [man |-> m, exp |-> s.exp - (MantBits - 1)]

\* x * f for a small positive integer f
FloatMul(x, f) ==
    IF x.man = <<>> THEN x
    ELSE LET p == MulLimbs(x.man, f, 0)
         IN RoundShift(p, x.exp, LimbsBitLen(p) - MantBits)

RECURSIVE SumLimbs(_, _, _)
SumLimbs(m, i, s) ==
    IF i > Len(m) THEN 0
    ELSE (IF LimbBits * (i - 1) >= s THEN m[i] * (2 ^ (LimbBits * (i - 1) - s))
          ELSE m[i] \div (2 ^ (s - LimbBits * (i - 1))))
         + SumLimbs(m, i + 1, s)

\* floor(x) for a double 0 <= x < 2^31 with a negative exponent
FloatFloor(x) ==
    IF x.man = <<>> \/ -x.exp >= MantBits THEN 0
    ELSE SumLimbs(x.man, (-x.exp) \div LimbBits + 1, -x.exp)

FloatIsInt(x) ==
    \/ x.man = <<>>
    \/ /\ -x.exp < MantBits
       /\ \A i \in 1..Len(x.man) :
            /\ LimbBits * i <= -x.exp => x.man[i] = 0
            /\ (LimbBits * (i - 1) < -x.exp /\ -x.exp < LimbBits * i)
                  => x.man[i] % (2 ^ (-x.exp - LimbBits * (i - 1))) = 0

\* math.ceil((a / b) * 100) for integers a and b > 0
CeilPct(a, b) ==
    IF a >= 0
    THEN FloatFloor(FloatMul(TrueDiv(a, b), 100))
            + (IF FloatIsInt(FloatMul(TrueDiv(a, b), 100)) THEN 0 ELSE 1)
    ELSE -FloatFloor(FloatMul(TrueDiv(-a, b), 100))

(***************************************************************************)
(* format_ms and the match normaliser (lines 69-130, 138-142).             *)
(***************************************************************************)
Pad2(n) == IF n < 10 THEN "0" \o ToString(n) ELSE ToString(n)

\* int((ms / 1000) % 60) and int((ms / (1000 * 60)) % 60): the float quotient of
\* an integer below 2^31 never crosses a whole number, so floor division is exact
format_ms(ms) ==
    IF ms = 0 THEN "00:00"
    ELSE Pad2((ms \div (1000 * 60)) % 60) \o ":" \o Pad2((ms \div 1000) % 60)

Percent(n) == ToString(n) \o "%"

\* variant: any response that carries a status counts as matched
IsMatched_AnyStatus(response) == "status" \in DOMAIN response

IsMatched(response) == Get(Get(response, "status", <<>>), "code", -1) = 0

all_hits(metadata) ==
    Get(metadata, "music", <<>>) \o Get(metadata, "custom_files", <<>>)
        \o Get(metadata, "humming", <<>>)

start_ms(m) == Get(m, "sample_begin_time_offset_ms", 0)

end_ms(m) == Get(m, "sample_end_time_offset_ms", start_ms(m) + Get(m, "duration_ms", 0))

\* variant: the operands of the subtraction swapped
match_duration_Swapped(m) == start_ms(m) - end_ms(m)

match_duration(m) == end_ms(m) - start_ms(m)

overlap_pct(m, total) ==
    IF total > 0 THEN CeilPct(match_duration(m), total) ELSE 0

match_type(score) ==
    IF score >= 90 THEN "Exact Match"
    ELSE IF score >= 40 THEN "Remix/Sample"
    ELSE "Low Confidence"

RECURSIVE Join(_)
Join(names) ==
    IF names = <<>> THEN ""
    ELSE IF Len(names) = 1 THEN names[1]
    ELSE names[1] \o ", " \o Join(Tail(names))

\* a['name'] raises KeyError for an artist without a name
ArtistsRaise(m) ==
    \E i \in 1..Len(Get(m, "artists", <<>>)) : "name" \notin DOMAIN Get(m, "artists", <<>>)[i]

CanonicalMatch(m, total) ==
    [title |-> Get(m, "title", "None"),
     artist |-> Join([i \in 1..Len(Get(m, "artists", <<>>)) |-> Get(m, "artists", <<>>)[i].name]),
     type |-> match_type(Get(m, "score", 0)),
     release_date |-> Get(m, "release_date", "Unknown"),
     time_range |-> "[" \o format_ms(start_ms(m)) \o " -> " \o format_ms(end_ms(m)) \o "]",
     match_score |-> Percent(Get(m, "score", 0)),
     overlap_percentage |-> Percent(overlap_pct(m, total)),
     isrc |-> Get(Get(m, "external_ids", <<>>), "isrc", "N/A"),
     label |-> Get(m, "label", "Unknown"),
     spotify_id |-> Get(Get(Get(Get(m, "external_metadata", <<>>), "spotify", <<>>), "track", <<>>), "id", "None"),
     deezer_id |-> Get(Get(Get(Get(m, "external_metadata", <<>>), "deezer", <<>>), "track", <<>>), "id", "None"),
     youtube_id |-> Get(Get(Get(m, "external_metadata", <<>>), "youtube", <<>>), "vid", "None"),
     acrid |-> Get(m, "acrid", "None")]

\* the candidates the loop of line 83 walks (none unless the response is matched)
Hits(response) ==
    IF IsMatched(response) THEN all_hits(Get(response, "metadata", <<>>)) ELSE <<>>

final_matches(response, total) ==
    [i \in 1..Len(Hits(response)) |-> CanonicalMatch(Hits(response)[i], total)]

NormalizeRaises(response) ==
    \E i \in 1..Len(Hits(response)) : ArtistsRaise(Hits(response)[i])

Normalized(response, total) ==
    [status |-> IF IsMatched(response) THEN "matched" ELSE "no_match",
     data |-> final_matches(response, total)]

(***************************************************************************)
(* The environment: what the URLs of requests serve, the credentials, and  *)
(* the bodies the fingerprint service answers with.                        *)
(***************************************************************************)
Urls == {"a.wav", "b.wav", "empty.wav", "noise.bin", "gone.wav", "down.wav", "cut.wav"}

\* how requests.get / raise_for_status / copyfileobj end for a URL
Fetch(url) ==
    CASE url = "gone.wav" -> "HTTPError"
      [] url = "down.wav" -> "ConnectionError"
      [] url = "cut.wav" -> "ProtocolError"
      [] OTHER -> "ok"

\* whether AudioSegment.from_file decodes a file holding these bytes
Decodable(content) == content.fmt = "source" /\ content.bytes \in {"a.wav", "b.wav", "empty.wav"}

\* len(source_audio) in milliseconds
Duration(bytes) ==
    CASE bytes = "a.wav" -> 100000
      [] bytes = "b.wav" -> 30000
      [] OTHER -> 0

NonAscii == {"s3cr\\u00e9t"}

Secrets == {"s3cret"} \cup NonAscii

Candidates(ids, scores, begins, ends, durations, artists) ==
    {[acrid |-> id] @@ s @@ b @@ e @@ d @@ a :
        id \in ids, s \in Opt("score", scores),
        b \in Opt("sample_begin_time_offset_ms", begins),
        e \in Opt("sample_end_time_offset_ms", ends),
        d \in Opt("duration_ms", durations), a \in artists}

Named == [artists |-> <<[name |-> "A"], [name |-> "B"]>>]

Unnamed == [artists |-> <<[id |-> 7]>>]

\* one candidate, every combination of its offsets and duration present or absent
TimedResponses ==
    {[status |-> [code |-> 0], metadata |-> [music |-> <<m>>]] :
        m \in Candidates({"t"}, {95}, {10000}, {7000, 17000, 20000}, {-5000, 7000}, {<<>>})}

\* candidates of several scores spread over the three categories
RankedResponses ==
    {[status |-> [code |-> 0], metadata |-> mu @@ cf @@ hu] :
        mu \in Opt("music", {<<[acrid |-> "m1", score |-> 70], [acrid |-> "m2", score |-> 95]>>,
                             <<[acrid |-> "m3", score |-> 90] @@ Named>>}),
        cf \in Opt("custom_files", {<<[acrid |-> "c1", score |-> 95]>>,
                                    <<[acrid |-> "c2", score |-> 39] @@ Unnamed>>}),
        hu \in Opt("humming", {<<>>, <<[acrid |-> "h1"], [acrid |-> "h2", score |-> 40]>>})}

\* no success code: another code, no code, or no status at all
UnmatchedResponses ==
    {st @@ md : st \in Opt("status", {[code |-> 1001], [msg |-> "No result"]}),
                md \in Opt("metadata", {[music |-> <<[acrid |-> "x", score |-> 99] @@ Unnamed>>]})}

Responses == TimedResponses \cup RankedResponses \cup UnmatchedResponses

\* r.text: a body json.loads rejects, or the JSON text of a response
Malformed == [raw |-> "<html>"]

Bodies == {Malformed} \cup {[json |-> j] : j \in Responses}

FewBodies ==
    {Malformed, [json |-> [status |-> [code |-> 1001]]],
     [json |-> [status |-> [code |-> 0], metadata |-> [music |-> <<[acrid |-> "m1", score |-> 70]>>]]]}

(***************************************************************************)
(* State.                                                                  *)
(***************************************************************************)
VARIABLES
    clock,      \* time.time(), in ticks
    storage,    \* the working directory: file name -> content, or NoFile
    open,       \* the file object files['sample'] of each request
    frame       \* the local variables of identify_audio in each worker

vars == <<clock, storage, open, frame>>

temp_wav_name(t) == "input_" \o ToString(IntTrunc(t)) \o ".wav"

temp_mp3_name(t) == "output_" \o ToString(IntTrunc(t)) \o ".mp3"

FileNames == {temp_wav_name(t) : t \in 0..MaxClock} \cup {temp_mp3_name(t) : t \in 0..MaxClock}

NoFile == <<>>

Closed == <<>>

Frame0 ==
    [pc |-> "idle", req |-> <<>>, temp_wav |-> "", temp_mp3 |-> "", source_audio |-> "",
     total_duration_ms |-> -1, timestamp |-> -1, string_to_sign |-> "", sign |-> <<>>,
     data |-> <<>>, posted |-> <<>>, text |-> <<>>, response |-> <<>>, exc |-> <<>>,
     result |-> <<>>, log |-> <<>>]

Init ==
    /\ clock = 0
    /\ storage = [n \in FileNames |-> NoFile]
    /\ open = [r \in Reqs |-> Closed]
    /\ frame = [r \in Reqs |-> Frame0]

exists(name) == storage[name] # NoFile

\* what a read through an open file object returns: the file's current content,
\* or, once the name was unlinked, the content it had then
Read(h) == IF "name" \in DOMAIN h THEN storage[h.name] ELSE h.content

\* open(name, 'wb') and write: creates the file or truncates the one there
Write(name, content) == storage' = [storage EXCEPT ![name] = content]

\* os.remove(name) by request r after closing (or not) its own file object
Unlink(name, mine) ==
    /\ storage' = [storage EXCEPT ![name] = NoFile]
    /\ open' = [q \in Reqs |->
                  IF "name" \in DOMAIN mine[q] /\ mine[q].name = name
                  THEN [content |-> storage[name]] ELSE mine[q]]

Logged(f, entries) == [f EXCEPT !.log = @ \o entries]

\* an exception raised inside the try block: control moves to line 132
Raised(f, stage, msg) == [f EXCEPT !.pc = "l133", !.exc = [stage |-> stage, msg |-> msg]]

Goto(f, label) == [f EXCEPT !.pc = label]

Tick ==
    /\ clock < MaxClock
    /\ clock' = clock + 1
    /\ UNCHANGED <<storage, open, frame>>

(***************************************************************************)
(* identify_audio, one action per statement that reads or writes the       *)
(* clock, the working directory or the network.  A label lNN is the line   *)
(* of main.py the worker is about to execute.                              *)
(***************************************************************************)
\* POST /identify arrives and a worker picks it up
Receive(r, urls, secrets) ==
    /\ frame[r].pc = "idle"
    /\ \E u \in urls, s \in secrets :
          frame' = [frame EXCEPT ![r] =
                      [Frame0 EXCEPT !.pc = "l23",
                                     !.req = [audio_url |-> u, acr_access_key |-> "key",
                                              acr_access_secret |-> s]]]
    /\ UNCHANGED <<clock, storage, open>>

\* line 23
NameWav(r) ==
    /\ frame[r].pc = "l23"
    /\ frame' = [frame EXCEPT ![r] = [@ EXCEPT !.pc = "l24", !.temp_wav = temp_wav_name(clock)]]
    /\ UNCHANGED <<clock, storage, open>>

\* line 24
NameMp3(r) ==
    /\ frame[r].pc = "l24"
    /\ frame' = [frame EXCEPT ![r] = [@ EXCEPT !.pc = "l29", !.temp_mp3 = temp_mp3_name(clock)]]
    /\ UNCHANGED <<clock, storage, open>>

\* lines 29-32: stream the URL into temp_wav
Download(r) ==
    LET f == Logged(frame[r], <<"download", "GET">>)
        url == frame[r].req.audio_url
    IN /\ frame[r].pc = "l29"
       /\ IF Fetch(url) \in {"HTTPError", "ConnectionError"}
          THEN /\ frame' = [frame EXCEPT ![r] = Raised(f, "download", Fetch(url))]
               /\ UNCHANGED storage
          ELSE IF Fetch(url) = "ProtocolError"
          THEN /\ Write(f.temp_wav, [bytes |-> url, fmt |-> "truncated"])
               /\ frame' = [frame EXCEPT ![r] =
                              Raised(Logged(f, <<"create:wav">>), "download", Fetch(url))]
          ELSE /\ Write(f.temp_wav, [bytes |-> url, fmt |-> "source"])
               /\ frame' = [frame EXCEPT ![r] = Goto(Logged(f, <<"create:wav">>), "l35")]
       /\ UNCHANGED <<clock, open>>

\* lines 35-36: decode temp_wav and measure it
Decode(r) ==
    LET f == Logged(frame[r], <<"decode">>)
    IN /\ frame[r].pc = "l35"
       /\ frame' = [frame EXCEPT ![r] =
                      IF ~exists(f.temp_wav) THEN Raised(f, "decode", "FileNotFoundError")
                      ELSE IF ~Decodable(storage[f.temp_wav])
                      THEN Raised(f, "decode", "CouldntDecodeError")
                      ELSE [f EXCEPT !.pc = "l41",
                                     !.source_audio = storage[f.temp_wav].bytes,
                                     !.total_duration_ms = Duration(storage[f.temp_wav].bytes)]]
       /\ UNCHANGED <<clock, storage, open>>

\* line 41: export opens temp_mp3 for writing, then encodes into it
Export(r, faults) ==
    LET f == Logged(frame[r], <<"transcode", "create:mp3">>)
    IN /\ frame[r].pc = "l41"
       /\ \E fault \in faults :
            IF fault
            THEN /\ Write(f.temp_mp3, [bytes |-> f.source_audio, fmt |-> "empty"])
                 /\ frame' = [frame EXCEPT ![r] = Raised(f, "transcode", "CouldntEncodeError")]
            ELSE /\ Write(f.temp_mp3, [bytes |-> f.source_audio, fmt |-> "mp3"])
                 /\ frame' = [frame EXCEPT ![r] = Goto(f, "l45")]
       /\ UNCHANGED <<clock, open>>

\* line 46
CanonicalString(access_key, seconds) ==
    "POST\n/v1/identify\n" \o access_key \o "\naudio\n1\n" \o seconds

\* line 47: base64 of the HMAC-SHA1 tag, a function of the key and the message
HmacB64(secret, message) == [hmac_sha1_b64 |-> message, key |-> secret]

\* lines 45-47: read the clock once, build the canonical string, sign it
Sign(r) ==
    LET f == [Logged(frame[r], <<"sign">>) EXCEPT
                !.timestamp = clock,
                !.string_to_sign =
                    CanonicalString(frame[r].req.acr_access_key, ToString(IntTrunc(clock)))]
    IN /\ frame[r].pc = "l45"
       /\ frame' = [frame EXCEPT ![r] =
                      IF f.req.acr_access_secret \in NonAscii
                      THEN Raised(f, "sign", "UnicodeEncodeError")
                      ELSE [f EXCEPT !.pc = "l49",
                                     !.sign = HmacB64(f.req.acr_access_secret, f.string_to_sign)]]
       /\ UNCHANGED <<clock, storage, open>>

\* line 49
OpenSample(r) ==
    LET f == Logged(frame[r], <<"upload">>)
    IN /\ frame[r].pc = "l49"
       /\ IF exists(f.temp_mp3)
          THEN /\ open' = [open EXCEPT ![r] = [name |-> f.temp_mp3]]
               /\ frame' = [frame EXCEPT ![r] = Goto(f, "l50")]
          ELSE /\ frame' = [frame EXCEPT ![r] = Raised(f, "upload", "FileNotFoundError")]
               /\ UNCHANGED open
       /\ UNCHANGED <<clock, storage>>

\* os.path.getsize: a 32 kbit/s stream holds 4 bytes for each millisecond
getsize(content) == IF content.fmt = "mp3" THEN 4 * Duration(content.bytes) ELSE 0

\* variant: the form reads the clock again instead of the frozen timestamp
FormTimestamp_Now(r) == ToString(IntTrunc(clock))

\* line 53
FormTimestamp(r) == ToString(IntTrunc(frame[r].timestamp))

\* lines 50-58
BuildForm(r) ==
    LET f == frame[r]
    IN /\ f.pc = "l50"
       /\ frame' = [frame EXCEPT ![r] =
                      IF ~exists(f.temp_mp3) THEN Raised(f, "upload", "FileNotFoundError")
                      ELSE [f EXCEPT !.pc = "l61",
                                     !.data = [access_key |-> f.req.acr_access_key,
                                               sample_bytes |-> getsize(storage[f.temp_mp3]),
                                               timestamp |-> FormTimestamp(r),
                                               signature |-> f.sign,
                                               data_type |-> "audio",
                                               signature_version |-> "1",
                                               region |-> "IN"]]]
       /\ UNCHANGED <<clock, storage, open>>

\* line 61: the multipart POST, answered with some body unless the transport fails
Upload(r, bodies, faults) ==
    LET f == Logged(frame[r], <<"POST">>)
    IN /\ frame[r].pc = "l61"
       /\ \E fault \in faults, body \in bodies :
            frame' = [frame EXCEPT ![r] =
                        IF fault THEN Raised(f, "upload", "ConnectionError")
                        ELSE [f EXCEPT !.pc = "l62",
                                       !.posted = [data |-> f.data, sample |-> Read(open[r]),
                                                   at |-> IntTrunc(clock)],
                                       !.text = body]]
       /\ UNCHANGED <<clock, storage, open>>

\* line 62
Parse(r) ==
    LET f == Logged(frame[r], <<"parse">>)
    IN /\ frame[r].pc = "l62"
       /\ frame' = [frame EXCEPT ![r] =
                      IF "json" \in DOMAIN f.text
                      THEN [f EXCEPT !.pc = "l64", !.response = f.text.json]
                      ELSE Raised(f, "parse", "JSONDecodeError")]
       /\ UNCHANGED <<clock, storage, open>>

\* lines 64-65
CloseRemoveWav(r) ==
    LET f == Logged(frame[r], <<"cleanup">>)
    IN /\ frame[r].pc = "l64"
       /\ IF exists(f.temp_wav)
          THEN /\ Unlink(f.temp_wav, [open EXCEPT ![r] = Closed])
               /\ frame' = [frame EXCEPT ![r] = Goto(Logged(f, <<"remove:wav">>), "l66")]
          ELSE /\ open' = [open EXCEPT ![r] = Closed]
               /\ frame' = [frame EXCEPT ![r] = Raised(f, "cleanup", "FileNotFoundError")]
               /\ UNCHANGED storage
       /\ UNCHANGED clock

\* line 66
RemoveMp3(r) ==
    LET f == frame[r]
    IN /\ f.pc = "l66"
       /\ IF exists(f.temp_mp3)
          THEN /\ Unlink(f.temp_mp3, open)
               /\ frame' = [frame EXCEPT ![r] = Goto(Logged(f, <<"remove:mp3">>), "l69")]
          ELSE /\ frame' = [frame EXCEPT ![r] = Raised(f, "cleanup", "FileNotFoundError")]
               /\ UNCHANGED <<storage, open>>
       /\ UNCHANGED clock

\* lines 69-130
Normalize(r) ==
    LET f == Logged(frame[r], <<"normalize">>)
    IN /\ frame[r].pc = "l69"
       /\ frame' = [frame EXCEPT ![r] =
                      IF NormalizeRaises(f.response) THEN Raised(f, "normalize", "'name'")
                      ELSE [f EXCEPT !.pc = "done",
                                     !.result = [status_code |-> 200,
                                                 body |-> Normalized(f.response,
                                                                     f.total_duration_ms)]]]
       /\ UNCHANGED <<clock, storage, open>>

\* an exception that escapes the handler itself: the framework answers 500
Unhandled(f, msg) ==
    [f EXCEPT !.pc = "done", !.exc = [stage |-> "except", msg |-> msg],
              !.result = [status_code |-> 500, detail |-> "Internal Server Error"]]

\* variant: a failed download is attempted once more
ExceptCheckWav_Retry(r) ==
    /\ frame[r].pc = "l133"
    /\ frame' = [frame EXCEPT ![r] =
                   Goto(@, IF frame[r].exc.stage = "download"
                              /\ Len(SelectSeq(frame[r].log, LAMBDA e : e = "GET")) < 2
                           THEN "l29"
                           ELSE IF exists(frame[r].temp_wav) THEN "l134" ELSE "l135")]
    /\ UNCHANGED <<clock, storage, open>>

\* line 134, the test
ExceptCheckWav(r) ==
    /\ frame[r].pc = "l133"
    /\ frame' = [frame EXCEPT ![r] =
                   Goto(@, IF exists(frame[r].temp_wav) THEN "l134" ELSE "l135")]
    /\ UNCHANGED <<clock, storage, open>>

\* line 134, os.remove
ExceptRemoveWav(r) ==
    LET f == frame[r]
    IN /\ f.pc = "l134"
       /\ IF exists(f.temp_wav)
          THEN /\ Unlink(f.temp_wav, open)
               /\ frame' = [frame EXCEPT ![r] = Goto(Logged(f, <<"remove:wav">>), "l135")]
          ELSE /\ frame' = [frame EXCEPT ![r] = Unhandled(f, "FileNotFoundError")]
               /\ UNCHANGED <<storage, open>>
       /\ UNCHANGED clock

\* variant: the handler forgets the transcoded sample
ExceptCheckMp3_Skip(r) ==
    /\ frame[r].pc = "l135"
    /\ frame' = [frame EXCEPT ![r] = Goto(@, "l136")]
    /\ UNCHANGED <<clock, storage, open>>

\* line 135, the test
ExceptCheckMp3(r) ==
    /\ frame[r].pc = "l135"
    /\ frame' = [frame EXCEPT ![r] =
                   Goto(@, IF exists(frame[r].temp_mp3) THEN "l135rm" ELSE "l136")]
    /\ UNCHANGED <<clock, storage, open>>

\* line 135, os.remove
ExceptRemoveMp3(r) ==
    LET f == frame[r]
    IN /\ f.pc = "l135rm"
       /\ IF exists(f.temp_mp3)
          THEN /\ Unlink(f.temp_mp3, open)
               /\ frame' = [frame EXCEPT ![r] = Goto(Logged(f, <<"remove:mp3">>), "l136")]
          ELSE /\ frame' = [frame EXCEPT ![r] = Unhandled(f, "FileNotFoundError")]
               /\ UNCHANGED <<storage, open>>
       /\ UNCHANGED clock

\* variant: the handler swallows the exception and answers an empty result
ExceptRaise_Swallow(r) ==
    /\ frame[r].pc = "l136"
    /\ frame' = [frame EXCEPT ![r] =
                   [@ EXCEPT !.pc = "done",
                             !.result = [status_code |-> 200,
                                         body |-> [status |-> "no_match", data |-> <<>>]]]]
    /\ UNCHANGED <<clock, storage, open>>

\* line 136
ExceptRaise(r) ==
    /\ frame[r].pc = "l136"
    /\ frame' = [frame EXCEPT ![r] =
                   [@ EXCEPT !.pc = "done",
                             !.result = [status_code |-> 500, detail |-> frame[r].exc.msg]]]
    /\ UNCHANGED <<clock, storage, open>>

\* the response is sent, the worker is free again and its locals are dropped
Return(r) ==
    /\ frame[r].pc = "done"
    /\ frame' = [frame EXCEPT ![r] = Frame0]
    /\ open' = [open EXCEPT ![r] = Closed]
    /\ UNCHANGED <<clock, storage>>

\* the statements of identify_audio after the request was picked up
Step(r, bodies, faults) ==
    \/ NameWav(r) \/ NameMp3(r) \/ Download(r) \/ Decode(r) \/ Export(r, faults)
    \/ Sign(r) \/ OpenSample(r) \/ BuildForm(r) \/ Upload(r, bodies, faults) \/ Parse(r)
    \/ CloseRemoveWav(r) \/ RemoveMp3(r) \/ Normalize(r)
    \/ ExceptCheckWav(r) \/ ExceptRemoveWav(r) \/ ExceptCheckMp3(r) \/ ExceptRemoveMp3(r)
    \/ ExceptRaise(r)

\* no other request is being handled
Alone(r) == \A q \in Reqs \ {r} : frame[q].pc = "idle"

\* requests handled one after the other
Next ==
    \/ Tick
    \/ \E r \in Reqs : \/ Alone(r) /\ Receive(r, Urls, Secrets)
                       \/ Step(r, Bodies, BOOLEAN)
                       \/ Return(r)

Spec == Init /\ [][Next]_vars

\* one request for each worker, handled concurrently
NextConc ==
    \/ Tick
    \/ \E r \in Reqs : Receive(r, {"a.wav", "b.wav", "noise.bin"}, {"s3cret"})
                          \/ Step(r, FewBodies, {FALSE})

SpecConc == Init /\ [][NextConc]_vars

(***************************************************************************)
(* Properties.                                                             *)
(***************************************************************************)
Done(r) == frame[r].pc = "done"

Count(log, e) == Len(SelectSeq(log, LAMBDA x : x = e))

StepOrder ==
    <<"download", "decode", "transcode", "sign", "upload", "parse", "cleanup", "normalize">>

Steps(log) == SelectSeq(log, LAMBDA x : \E i \in 1..Len(StepOrder) : StepOrder[i] = x)

IsPrefix(s, t) == Len(s) <= Len(t) /\ s = SubSeq(t, 1, Len(s))

Index(log, e) == CHOOSE i \in 1..Len(log) : log[i] = e

StatusCode(result) == Get(result, "status_code", 0)

\* the number a percentage string of the result shows
PercentValue(s) == CHOOSE n \in -1000..1000 : Percent(n) = s

HasCodeZero(response) ==
    /\ "status" \in DOMAIN response
    /\ "code" \in DOMAIN response.status
    /\ response.status.code = 0

HitIndex(response, acrid) ==
    CHOOSE i \in 1..Len(Hits(response)) : Hits(response)[i].acrid = acrid

\* C3: the data list is in descending order of score, and candidates of equal
\* score keep the order of the category merge
C3_DescendingByScore ==
    \A r \in Reqs :
        Done(r) /\ StatusCode(frame[r].result) = 200 =>
            LET d == frame[r].result.body.data
            IN \A i, j \in 1..Len(d) :
                  i < j =>
                     \/ PercentValue(d[i].match_score) > PercentValue(d[j].match_score)
                     \/ /\ PercentValue(d[i].match_score) = PercentValue(d[j].match_score)
                        /\ HitIndex(frame[r].response, d[i].acrid)
                              < HitIndex(frame[r].response, d[j].acrid)

C5_ExactlyTwoFilesOneUpload ==
    \A r \in Reqs :
        /\ IsPrefix(Steps(frame[r].log), StepOrder)
        /\ Done(r) =>
              /\ Count(frame[r].log, "create:wav") + Count(frame[r].log, "create:mp3") = 2
              /\ Count(frame[r].log, "remove:wav") + Count(frame[r].log, "remove:mp3") = 2
              /\ Count(frame[r].log, "GET") = 1
              /\ Count(frame[r].log, "POST") = 1

\* C5 amended: the steps run in order and none is repeated; an invocation makes
\* one download, at most one upload, and creates and deletes each scratch file at
\* most once; one that returns 200 created and deleted exactly two files and
\* made exactly one upload
C5_AtMostOnceInOrder ==
    \A r \in Reqs :
        LET log == frame[r].log
        IN /\ IsPrefix(Steps(log), StepOrder)
           /\ Count(log, "GET") = Count(log, "download") /\ Count(log, "POST") <= 1
           /\ \A e \in {"create:wav", "create:mp3", "remove:wav", "remove:mp3"} : Count(log, e) <= 1
           /\ Count(log, "POST") = 1 =>
                 /\ Index(log, "sign") < Index(log, "POST")
                 /\ Index(log, "transcode") < Index(log, "sign")
                 /\ Index(log, "GET") < Index(log, "transcode")
           /\ Count(log, "parse") = 1 => Index(log, "POST") < Index(log, "parse")
           /\ Done(r) => Count(log, "GET") = 1
           /\ Done(r) /\ StatusCode(frame[r].result) = 200 =>
                 /\ Count(log, "create:wav") + Count(log, "create:mp3") = 2
                 /\ Count(log, "remove:wav") + Count(log, "remove:mp3") = 2
                 /\ Count(log, "POST") = 1

\* a request ended after its download failed: no file made, nothing uploaded
C5_Witness ==
    \E r \in Reqs :
        /\ Done(r) /\ frame[r].exc # <<>> /\ frame[r].exc.stage = "download"
        /\ Count(frame[r].log, "create:wav") = 0 /\ Count(frame[r].log, "POST") = 0

InFlight(r) == frame[r].pc \notin {"idle", "l23", "l24", "done"}

\* C6: two requests in flight at the same time never use the same scratch-file
\* name, for the input or for the output
C6_DistinctNames ==
    \A r, q \in Reqs :
        r # q /\ InFlight(r) /\ InFlight(q) =>
            /\ frame[r].temp_wav # frame[q].temp_wav
            /\ frame[r].temp_mp3 # frame[q].temp_mp3

\* C7: the timestamp sent in the form is the one in the canonical string that
\* was signed, and the signature was computed after the transcode and before
\* the upload
C7_TimestampSentIsSigned ==
    \A r \in Reqs :
        frame[r].posted # <<>> =>
            /\ frame[r].string_to_sign
                  = CanonicalString(frame[r].posted.data.access_key,
                                    frame[r].posted.data.timestamp)
            /\ frame[r].posted.data.signature
                  = HmacB64(frame[r].req.acr_access_secret, frame[r].string_to_sign)
            /\ Index(frame[r].log, "transcode") < Index(frame[r].log, "sign")
            /\ Index(frame[r].log, "sign") < Index(frame[r].log, "POST")

\* a sample was uploaded a whole second or more after the time was read
C7_Witness ==
    \E r \in Reqs :
        /\ frame[r].posted # <<>>
        /\ frame[r].posted.at > IntTrunc(frame[r].timestamp)

\* C8 as stated: for every candidate end_ms is not before start_ms and the
\* overlap percentage is not negative
C8_OverlapNeverNegative ==
    \A r \in Reqs :
        Done(r) /\ StatusCode(frame[r].result) = 200 =>
            \A i \in 1..Len(Hits(frame[r].response)) :
                /\ end_ms(Hits(frame[r].response)[i]) >= start_ms(Hits(frame[r].response)[i])
                /\ PercentValue(frame[r].result.body.data[i].overlap_percentage) >= 0

\* the candidate's end offset, when present, is not before its begin offset
\* (0 when absent), and its duration, when it is used, is not negative
SaneOffsets(m) ==
    IF "sample_end_time_offset_ms" \in DOMAIN m
    THEN m.sample_end_time_offset_ms
            >= (IF "sample_begin_time_offset_ms" \in DOMAIN m THEN m.sample_begin_time_offset_ms ELSE 0)
    ELSE "duration_ms" \in DOMAIN m => m.duration_ms >= 0

\* C8 amended: for every candidate with such offsets, end_ms is not before
\* start_ms and the overlap percentage is not negative
C8_OverlapNonNegativeForSaneOffsets ==
    \A r \in Reqs :
        Done(r) /\ StatusCode(frame[r].result) = 200 =>
            \A i \in 1..Len(Hits(frame[r].response)) :
                SaneOffsets(Hits(frame[r].response)[i]) =>
                    /\ end_ms(Hits(frame[r].response)[i]) >= start_ms(Hits(frame[r].response)[i])
                    /\ PercentValue(frame[r].result.body.data[i].overlap_percentage) >= 0

\* a candidate with a begin offset and a duration but no end offset got a
\* positive overlap
C8_Witness ==
    \E r \in Reqs :
        /\ Done(r) /\ StatusCode(frame[r].result) = 200
        /\ Len(Hits(frame[r].response)) = 1
        /\ DOMAIN Hits(frame[r].response)[1]
              = {"acrid", "sample_begin_time_offset_ms", "duration_ms"}
        /\ Hits(frame[r].response)[1].duration_ms > 0
        /\ PercentValue(frame[r].result.body.data[1].overlap_percentage) > 0

\* the integer ceiling of 100 * n / d for d > 0
ExactCeilPct(n, d) == -((-(100 * n)) \div d)

\* C9: the overlap percentage of every candidate is the exact integer ceiling
\* of 100 * (end_ms - start_ms) / total_duration_ms, and 0 when the total is 0
C9_ExactCeiling ==
    \A r \in Reqs :
        Done(r) /\ StatusCode(frame[r].result) = 200 =>
            \A i \in 1..Len(Hits(frame[r].response)) :
                PercentValue(frame[r].result.body.data[i].overlap_percentage)
                    = IF frame[r].total_duration_ms > 0
                      THEN ExactCeilPct(end_ms(Hits(frame[r].response)[i])
                                            - start_ms(Hits(frame[r].response)[i]),
                                        frame[r].total_duration_ms)
                      ELSE 0

\* the request's 500 comes from a failure of one of its own stages
OwnFailure(r) ==
    \/ frame[r].exc.msg \in {"HTTPError", "ConnectionError", "ProtocolError", "CouldntEncodeError",
                             "UnicodeEncodeError", "JSONDecodeError", "'name'"}
    \/ /\ frame[r].exc.msg = "CouldntDecodeError"
       /\ ~Decodable([bytes |-> frame[r].req.audio_url, fmt |-> "source"])

\* C10: a request transcodes and uploads its own audio only, and ends with a
\* 500 only when one of its own stages failed
C10_Isolation ==
    \A r \in Reqs :
        /\ frame[r].source_audio # "" => frame[r].source_audio = frame[r].req.audio_url
        /\ frame[r].posted # <<>> =>
              frame[r].posted.sample = [bytes |-> frame[r].req.audio_url, fmt |-> "mp3"]
        /\ Done(r) /\ StatusCode(frame[r].result) = 500 => OwnFailure(r)
=============================================================================
